---- MODULE Spec2Model ----
(***************************************************************************)
(* A model of gland's Compositor (src/src/compositor.rs, src/src/lib.rs,   *)
(* src/src/jobs.rs): the layer registry with its mount/unmount operations, *)
(* and the run loop that merges the event sources, dispatches each event   *)
(* to the mounted components, applies the queued callbacks, renders, and   *)
(* owns the terminal session guard.                                        *)
(*                                                                         *)
(* Five specifications share the variables: SpecRegistry (the registry     *)
(* calls of the host), Spec (the run loop over the user's streams),        *)
(* SpecTimer (the run loop with its clock and its interval), SpecJobs (the *)
(* run loop with spawned jobs and the channel of their results) and        *)
(* SpecAccess (one EventAccess under the calls of a handler).              *)
(***************************************************************************)
EXTENDS Integers, Sequences, FiniteSets, TLC

\* LayerId is an i16 ordered by its value (lib.rs:15-17, derive Ord).
FOREGROUND == 1000
POPUP == 2000
LayerIds == {FOREGROUND, POPUP}

\* Component ids are opaque 64-bit hashes compared by equality only
\* (lib.rs:35-36); the three ids of examples/simple.rs stand for them.
Ids == {"main", "popup", "input"}

\* Concrete component types, as seen by the Any downcast of take_at.
Types == {"MainScreen", "Popup", "Input"}

\* The component values the host and the callbacks can supply: a component
\* is its (constant) id, its concrete type and the instance it is. Two
\* Popup instances share one id, as two calls of Popup::default() do.
Catalogue ==
    { [id |-> "main",  ty |-> "MainScreen", inst |-> 1],
      [id |-> "input", ty |-> "Input",      inst |-> 1],
      [id |-> "popup", ty |-> "Popup",      inst |-> 1],
      [id |-> "popup", ty |-> "Popup",      inst |-> 2] }

\* Components without distinguishable duplicates: what the host mounts
\* before run in the run-loop specification.
HostComponents == { c \in Catalogue : c.inst = 1 }

NoComp == [id |-> "none", ty |-> "none", inst |-> 0]

\* Event<E> (lib.rs:59-70). User and Terminal carry payloads the loop never
\* looks at.
Events == {"User", "Terminal", "Tick", "Exit", "None"}

\* What a user-supplied stream emits in this model.
StreamEvents == {"User", "Tick", "Exit"}

\* The callbacks components queue: those of examples/simple.rs
\* (cc.exit(), cc.remove_all(id), cc.replace_at(LayerId::POPUP, Popup {..})).
CallbackSet ==
    { [kind |-> "exit", arg |-> NoComp],
      [kind |-> "remove_all", arg |-> [id |-> "popup", ty |-> "Popup", inst |-> 1]],
      [kind |-> "replace_at", arg |-> [id |-> "popup", ty |-> "Popup", inst |-> 2]] }

\* No callback: what Dequeue is given for a source that delivers an event.
NoCallback == [kind |-> "none", arg |-> NoComp]

\* Bounds of the model.
MaxMounted == 2      \* components the host mounts before run
MaxCallbacks == 2    \* callbacks queued in one dispatch cycle
MaxTime == 4         \* seconds the clock runs for
MaxJobs == 14        \* jobs running or finished with a callback
MaxCalls == 3        \* calls made on one EventAccess

\* mpsc::channel(12), the channel of the job results (compositor.rs:261).
ChannelCap == 12

\* The callbacks a job hands back: closures over the compositor, like the
\* ones components queue (jobs.rs:22-31).
JobCallbacks == { cb \in CallbackSet : cb.kind \in {"exit", "remove_all"} }

\* Duration::from_secs(3), the timeout of with_state (compositor.rs:204), and
\* the timeouts the host sets with with_timeout: Duration::ZERO or a period.
DefaultTimeout == 3
Timeouts == {0, DefaultTimeout}

VARIABLES
    layers,     \* Compositor.layers: LayerId -> Vec<Box<dyn Component>> (BTreeMap: the domain is the key set)
    last,       \* the most recent registry call of the host: its name, what it returned, whether the id was mounted before it
    pc,         \* where the host / run is
    result,     \* how the program ended: "none" while it runs, then "Ok", "Err" or "Panic"
    exit,       \* Compositor.exit
    shutdown,   \* a with_shutdown future is set and has not resolved yet
    initTick,   \* the stream::iter([Event::Tick]) of run has not yielded yet
    guard,      \* run's TerminalGuard: "none" before it exists, "held", "dropped"
    term,       \* the terminal session: raw mode, alternate screen, mouse capture
    restores,   \* how many times TerminalGuard::drop has run
    resumed,    \* what flux.next() yielded for the current iteration: its source and event
    event,      \* access.event, the EventAccess of the current dispatch cycle
    cur,        \* where the dispatch loops are: <<layer, index>>, or <<>> once they are left
    callbacks,  \* cx.callbacks, then the callbacks still to apply
    handled,    \* the handle_event calls of the current iteration, in order, each with is_consumed() at its return
    queued,     \* the add_callback calls of the current dispatch cycle, in order
    executed,   \* the callbacks applied in the current iteration, in order
    rendered,   \* terminal.draw has run in the current iteration
    drawn,      \* the components whose view it called, in order
    timeout,    \* Compositor.timeout, in seconds
    now,        \* the clock: seconds since run created its streams
    due,        \* the deadline of the next tick of run's interval
    ticked,     \* when the last two Ticks of run's own streams were dequeued
    running,    \* spawned jobs whose future has not finished
    sending,    \* finished jobs in sender.send(..).await, their callback not in the channel yet
    chan,       \* callbacks in the channel of the job results
    yielded,    \* how many callbacks jobs have produced so far
    served,     \* how many job callbacks the loop has called so far
    refused,    \* how many sends found the channel closed (the task panics)
    updating,   \* the ids whose should_update was true at the last render pass
    accLog      \* the calls made on an EventAccess, in order

loopVars == <<exit, shutdown, initTick, guard, term, restores, resumed, event,
              cur, callbacks, handled, queued, executed, rendered, drawn>>
timeVars == <<timeout, now, due, ticked>>
jobVars == <<running, sending, chan, yielded, served, refused>>
sideVars == <<timeVars, jobVars, updating, accLog>>
vars == <<layers, last, pc, result, exit, shutdown, initTick, guard, term,
          restores, resumed, event, cur, callbacks, handled, queued, executed,
          rendered, drawn, sideVars>>

----------------------------------------------------------------------------
\* Vec helpers, 1-based where Rust is 0-based.

\* Iterator::any / position over c.id() == id.
HasId(v, id) == \E i \in 1..Len(v) : v[i].id = id

position(v, id) ==
    CHOOSE i \in 1..Len(v) : v[i].id = id /\ \A j \in 1..(i - 1) : v[j].id # id

\* Vec::retain(|c| c.id() != id)
retain(v, id) == SelectSeq(v, LAMBDA c : c.id # id)

\* Vec::swap_remove(i): the last element takes the place of the removed one.
swap_remove(v, i) ==
    [j \in 1..(Len(v) - 1) |-> IF j = i THEN v[Len(v)] ELSE v[j]]

\* BTreeMap::entry(layer_id).or_default()
or_default(ls, layer_id) ==
    IF layer_id \in DOMAIN ls
    THEN ls
    ELSE [k \in DOMAIN ls \cup {layer_id} |-> IF k = layer_id THEN <<>> ELSE ls[k]]

----------------------------------------------------------------------------
\* The registry operations, as functions from the registry to the new
\* registry and the returned value.

insert_at_unchecked(ls, layer_id, component) ==
    LET e == or_default(ls, layer_id) IN
    [layers |-> [e EXCEPT ![layer_id] = Append(@, component)],
     ret |-> "Ok", out |-> NoComp]

insert_at_overwrite(ls, layer_id, component) ==
    LET e == or_default(ls, layer_id) IN
    IF HasId(e[layer_id], component.id)
    THEN [layers |-> [e EXCEPT ![layer_id] =
                        [i \in 1..Len(@) |-> IF @[i].id = component.id
                                             THEN component ELSE @[i]]],
          ret |-> "Err", out |-> component]
    ELSE [layers |-> [e EXCEPT ![layer_id] = Append(@, component)],
          ret |-> "Ok", out |-> NoComp]

insert_at(ls, layer_id, component) ==
    LET e == or_default(ls, layer_id) IN
    IF HasId(e[layer_id], component.id)
    THEN [layers |-> e, ret |-> "Err", out |-> component]
    ELSE [layers |-> [e EXCEPT ![layer_id] = Append(@, component)],
          ret |-> "Ok", out |-> NoComp]

replace_at_front(ls, layer_id, component) ==
    LET e == or_default(ls, layer_id) IN
    [layers |-> [e EXCEPT ![layer_id] = <<component>> \o retain(@, component.id)],
     ret |-> "unit", out |-> NoComp]

replace_at(ls, layer_id, component) ==
    LET e == or_default(ls, layer_id) IN
    [layers |-> [e EXCEPT ![layer_id] = Append(retain(@, component.id), component)],
     ret |-> "unit", out |-> NoComp]

remove_all(ls, component_id) ==
    [layers |-> [k \in DOMAIN ls |-> retain(ls[k], component_id)],
     ret |-> "unit", out |-> NoComp]

\* take_at::<C>: C is the requested concrete type. The failed downcast hands
\* the box back and it is pushed at the end of the layer. The transmute of
\* line 166 gives the box its Component vtable back: Any is Component's only
\* supertrait, so the upcast of line 161 kept the vtable pointer, and the
\* component pushed is the component removed.
take_at(ls, layer_id, component_id, C) ==
    IF layer_id \notin DOMAIN ls
    THEN [layers |-> ls, ret |-> "None", out |-> NoComp]
    ELSE IF ~HasId(ls[layer_id], component_id)
    THEN [layers |-> ls, ret |-> "None", out |-> NoComp]
    ELSE LET p == position(ls[layer_id], component_id)
             dyncomp == ls[layer_id][p]
             rest == swap_remove(ls[layer_id], p)
         IN  IF dyncomp.ty = C
             THEN [layers |-> [ls EXCEPT ![layer_id] = rest],
                   ret |-> "Some", out |-> dyncomp]
             ELSE [layers |-> [ls EXCEPT ![layer_id] = Append(rest, dyncomp)],
                   ret |-> "None", out |-> NoComp]

\* remove_at: get_mut(&layer_id).unwrap() panics on a layer without an
\* entry; otherwise the call returns true whatever retain removed.
remove_at(ls, layer_id, component_id) ==
    IF layer_id \notin DOMAIN ls
    THEN [layers |-> ls, ret |-> "panic", out |-> NoComp]
    ELSE [layers |-> [ls EXCEPT ![layer_id] = retain(@, component_id)],
          ret |-> "true", out |-> NoComp]

----------------------------------------------------------------------------
\* Whether id is mounted in layer_id of ls.
Mounted(ls, layer_id, id) == layer_id \in DOMAIN ls /\ HasId(ls[layer_id], id)

NoCall == [op |-> "none", ret |-> "none", out |-> NoComp, hit |-> FALSE]

\* The host applies one registry operation to the compositor it owns.
Apply(op, r, hit) ==
    /\ layers' = r.layers
    /\ last' = [op |-> op, ret |-> r.ret, out |-> r.out, hit |-> hit]
    /\ IF r.ret = "panic"
       THEN pc' = "done" /\ result' = "Panic"
       ELSE UNCHANGED <<pc, result>>
    /\ UNCHANGED loopVars
    /\ UNCHANGED sideVars

CallInsertAt(layer_id, component) ==
    /\ pc = "build"
    /\ Apply("insert_at", insert_at(layers, layer_id, component),
             Mounted(layers, layer_id, component.id))

CallReplaceAt(layer_id, component) ==
    /\ pc = "build"
    /\ Apply("replace_at", replace_at(layers, layer_id, component),
             Mounted(layers, layer_id, component.id))

CallRemoveAll(component_id) ==
    /\ pc = "build"
    /\ Apply("remove_all", remove_all(layers, component_id),
             \E l \in LayerIds : Mounted(layers, l, component_id))

CallTakeAt(layer_id, component_id, C) ==
    /\ pc = "build"
    /\ Apply("take_at", take_at(layers, layer_id, component_id, C),
             Mounted(layers, layer_id, component_id))

CallRemoveAt(layer_id, component_id) ==
    /\ pc = "build"
    /\ Apply("remove_at", remove_at(layers, layer_id, component_id),
             Mounted(layers, layer_id, component_id))

\* Compositor::with_state: an empty registry.
TermOff == [raw |-> FALSE, alt |-> FALSE, mouse |-> FALSE]
TermOn == [raw |-> TRUE, alt |-> TRUE, mouse |-> TRUE]
NoResume == [src |-> "none", ev |-> "None"]

Init ==
    /\ layers = <<>>
    /\ last = NoCall
    /\ pc = "build"
    /\ result = "none"
    /\ exit = FALSE
    /\ shutdown = FALSE
    /\ initTick = FALSE
    /\ guard = "none"
    /\ term = TermOff
    /\ restores = 0
    /\ resumed = NoResume
    /\ event = "None"
    /\ cur = <<>>
    /\ callbacks = <<>>
    /\ handled = <<>>
    /\ queued = <<>>
    /\ executed = <<>>
    /\ rendered = FALSE
    /\ drawn = <<>>
    /\ timeout = DefaultTimeout
    /\ now = 0
    /\ due = 0
    /\ ticked = <<>>
    /\ running = 0
    /\ sending = 0
    /\ chan = 0
    /\ yielded = 0
    /\ served = 0
    /\ refused = 0
    /\ updating = {}
    /\ accLog = <<>>

NextRegistry ==
    \/ \E l \in LayerIds, c \in Catalogue : CallInsertAt(l, c)
    \/ \E l \in LayerIds, c \in Catalogue : CallReplaceAt(l, c)
    \/ \E id \in Ids : CallRemoveAll(id)
    \/ \E l \in LayerIds, id \in Ids, C \in Types : CallTakeAt(l, id, C)
    \/ \E l \in LayerIds, id \in Ids : CallRemoveAt(l, id)

SpecRegistry == Init /\ [][NextRegistry]_vars

----------------------------------------------------------------------------
\* The run loop (compositor.rs:247-334).

\* The host mounts a component before run (examples/simple.rs:190).
Mount(layer_id, component) ==
    /\ pc = "build"
    /\ Cardinality(UNION { { <<l, i>> : i \in 1..Len(layers[l]) } :
                              l \in DOMAIN layers }) < MaxMounted
    /\ layers' = insert_at(layers, layer_id, component).layers
    /\ UNCHANGED <<last, pc, result>>
    /\ UNCHANGED loopVars
    /\ UNCHANGED sideVars

\* with_shutdown: one more stream, which yields Event::Exit once.
WithShutdown ==
    /\ pc = "build"
    /\ ~shutdown
    /\ shutdown' = TRUE
    /\ UNCHANGED <<layers, last, pc, result, exit, initTick, guard, term,
                   restores, resumed, event, cur, callbacks, handled, queued,
                   executed, rendered, drawn>>
    /\ UNCHANGED sideVars

\* with_timeout (compositor.rs:212-215)
WithTimeout(t) ==
    /\ pc = "build"
    /\ timeout' = t
    /\ UNCHANGED <<layers, last, pc, result>>
    /\ UNCHANGED loopVars
    /\ UNCHANGED <<now, due, ticked>>
    /\ UNCHANGED <<jobVars, updating, accLog>>

\* TerminalGuard::new (compositor.rs:357-371): enable_raw_mode()?, then
\* execute!(EnterAlternateScreen, EnableMouseCapture, Clear)?. A failure
\* returns before a guard exists. applied: the commands of execute! that
\* took effect before the failure (3: none failed). Then run sets up its
\* streams (compositor.rs:250-262): the interval, when the timeout is not
\* zero, its first tick due at once; the initial Tick.
GuardNew(rawOk, applied) ==
    /\ pc = "build"
    /\ IF ~rawOk
       THEN /\ pc' = "done" /\ result' = "Err"
            /\ UNCHANGED <<term, guard, initTick, due>>
       ELSE IF applied < 3
       THEN /\ pc' = "done" /\ result' = "Err"
            /\ term' = [raw |-> TRUE, alt |-> applied >= 1, mouse |-> applied >= 2]
            /\ UNCHANGED <<guard, initTick, due>>
       ELSE /\ pc' = "terminal" /\ UNCHANGED result
            /\ term' = TermOn
            /\ guard' = "held"
            /\ initTick' = TRUE
            /\ due' = now
    /\ UNCHANGED <<layers, last, exit, shutdown, restores, resumed, event, cur,
                   callbacks, handled, queued, executed, rendered, drawn>>
    /\ UNCHANGED <<timeout, now, ticked>>
    /\ UNCHANGED <<jobVars, updating, accLog>>

\* Terminal::new(backend)? (compositor.rs:268), after the streams are set up.
TerminalNew(ok) ==
    /\ pc = "terminal"
    /\ IF ok
       THEN pc' = "await" /\ UNCHANGED result
       ELSE pc' = "drop" /\ result' = "Err"
    /\ UNCHANGED <<layers, last, exit, shutdown, initTick, guard, term,
                   restores, resumed, event, cur, callbacks, handled, queued,
                   executed, rendered, drawn>>
    /\ UNCHANGED sideVars

\* Max of a non-empty set of layer ids.
MaxKey(K) == CHOOSE m \in K : \A k \in K : k <= m
MinKey(K) == CHOOSE m \in K : \A k \in K : m <= k

\* The first component of the layers whose keys are in K, taking the layers
\* from the lowest key up: the mutation of values_mut().rev() without rev().
RECURSIVE FirstInAscending(_, _)
FirstInAscending(ls, K) ==
    IF K = {} THEN <<>>
    ELSE LET m == MinKey(K) IN
         IF Len(ls[m]) > 0 THEN <<m, 1>> ELSE FirstInAscending(ls, K \ {m})

\* The first component of the layers whose keys are in K, taking the layers
\* as self.layers.values_mut().rev() does: from the highest key down.
RECURSIVE FirstIn(_, _)
FirstIn(ls, K) ==
    IF K = {} THEN <<>>
    ELSE LET m == MaxKey(K) IN
         IF Len(ls[m]) > 0 THEN <<m, 1>> ELSE FirstIn(ls, K \ {m})

\* The step of the two nested for loops (compositor.rs:290-291).
Advance(ls, at) ==
    IF at[2] < Len(ls[at[1]])
    THEN <<at[1], at[2] + 1>>
    ELSE FirstIn(ls, { k \in DOMAIN ls : k < at[1] })

\* What a callback does to the compositor.
ApplyCallback(cb, ls) ==
    CASE cb.kind = "remove_all" -> remove_all(ls, cb.arg.id).layers
      [] cb.kind = "replace_at" -> replace_at(ls, POPUP, cb.arg).layers
      [] OTHER -> ls

\* The interval exists for every timeout: the mutation of run without the
\* test of compositor.rs:250.
ticking_always(t) == TRUE

\* if !self.timeout.is_zero() (compositor.rs:250): run has an interval.
ticking(t) == t # 0

\* What the last two Ticks of run's own streams are after one more at time t.
tick_at(log, t) == IF Len(log) < 2 THEN Append(log, t) ELSE <<log[2], t>>

\* flux.next().await yields an event of one of the merged streams, then the
\* loop builds the Context (terminal.size()?) and the EventAccess
\* (compositor.rs:271-287). The interval yields a tick when its deadline has
\* passed, and its next deadline is one period after that deadline, however
\* late the tick is taken (tokio's default, MissedTickBehavior::Burst).
\* The channel of the job results yields a Resume::JobCallback: its callback
\* cb is called at once and the iteration goes on with Event::None
\* (compositor.rs:274-277).
Dequeue(src, e, cb, sizeOk) ==
    /\ pc = "await"
    /\ \/ src = "initial" /\ initTick /\ e = "Tick"
          /\ initTick' = FALSE /\ ticked' = tick_at(ticked, now)
          /\ UNCHANGED <<shutdown, due, layers, exit, chan, served>>
       \/ src = "interval" /\ ticking(timeout) /\ now >= due /\ e = "Tick"
          /\ due' = due + timeout /\ ticked' = tick_at(ticked, now)
          /\ UNCHANGED <<initTick, shutdown, layers, exit, chan, served>>
       \/ src = "shutdown" /\ shutdown /\ e = "Exit"
          /\ shutdown' = FALSE
          /\ UNCHANGED <<initTick, due, ticked, layers, exit, chan, served>>
       \/ src = "stream" /\ e \in StreamEvents
          /\ UNCHANGED <<initTick, shutdown, due, ticked, layers, exit, chan, served>>
       \/ src = "job" /\ chan > 0 /\ e = "None"
          /\ chan' = chan - 1
          /\ layers' = ApplyCallback(cb, layers)
          /\ exit' = (exit \/ cb.kind = "exit")
          /\ served' = served + 1
          /\ UNCHANGED <<initTick, shutdown, due, ticked>>
    /\ resumed' = [src |-> src, ev |-> e]
    /\ event' = e
    /\ callbacks' = <<>>
    /\ handled' = <<>>
    /\ queued' = <<>>
    /\ executed' = <<>>
    /\ rendered' = FALSE
    /\ drawn' = <<>>
    /\ IF sizeOk
       THEN pc' = "dispatch" /\ cur' = FirstIn(layers', DOMAIN layers') /\ UNCHANGED result
       ELSE pc' = "drop" /\ result' = "Err" /\ cur' = <<>>
    /\ UNCHANGED <<last, guard, term, restores>>
    /\ updating' = {}
    /\ UNCHANGED <<timeout, now, running, sending, yielded, refused, accLog>>

\* EventAccess::is_consumed (lib.rs:190-192)
is_consumed(ev) == ev = "None"

\* The loops without the break: every component is visited.
NextVisitNoBreak(ls, at, ev) == Advance(ls, at)

\* if access.is_consumed() { break 'outer; } (compositor.rs:294-296): where
\* the loops go after the handle_event at `at` left ev in the EventAccess.
NextVisit(ls, at, ev) ==
    IF is_consumed(ev) THEN <<>> ELSE Advance(ls, at)

\* One pass of the inner loop body (compositor.rs:292-296): the component's
\* handle_event runs, leaving `held` in the EventAccess (the event untouched,
\* None after consume(), another event after replace()) and `added` pushed by
\* add_callback, having spawned `spawned` jobs with cx.jobs().spawn
\* (jobs.rs:50-67), or panicking; then the loop tests is_consumed().
HandleEvent(held, added, spawned, panics) ==
    /\ pc = "dispatch"
    /\ cur # <<>>
    /\ Len(callbacks) + Len(added) <= MaxCallbacks
    /\ running + yielded + spawned <= MaxJobs
    /\ LET c == layers[cur[1]][cur[2]] IN
       IF panics
       THEN /\ pc' = "drop" /\ result' = "Panic"
            /\ handled' = Append(handled, [layer |-> cur[1], id |-> c.id, consumed |-> FALSE])
            /\ UNCHANGED <<event, callbacks, cur, queued, running>>
       ELSE /\ event' = held
            /\ running' = running + spawned
            /\ callbacks' = callbacks \o added
            /\ handled' = Append(handled, [layer |-> cur[1], id |-> c.id,
                                           consumed |-> is_consumed(held)])
            /\ queued' = queued \o added
            /\ cur' = NextVisit(layers, cur, held)
            /\ UNCHANGED <<pc, result>>
    /\ UNCHANGED <<layers, last, exit, shutdown, initTick, guard, term,
                   restores, resumed, executed, rendered, drawn>>
    /\ UNCHANGED <<timeVars, sending, chan, yielded, served, refused, updating, accLog>>

\* The loops are left: the Context is taken apart (compositor.rs:300-306).
Deconstruct ==
    /\ pc = "dispatch"
    /\ cur = <<>>
    /\ pc' = "callbacks"
    /\ UNCHANGED <<layers, last, result, exit, shutdown, initTick, guard, term,
                   restores, resumed, event, cur, callbacks, handled, queued,
                   executed, rendered, drawn>>
    /\ UNCHANGED sideVars

\* callbacks.into_iter().for_each(|cc| cc(&mut self)), one callback at a time
\* (compositor.rs:307), here from the back of the queue.
RunCallbackLifo ==
    /\ pc = "callbacks"
    /\ callbacks # <<>>
    /\ LET cb == callbacks[Len(callbacks)] IN
       /\ layers' = ApplyCallback(cb, layers)
       /\ exit' = (exit \/ cb.kind = "exit")
       /\ executed' = Append(executed, cb)
    /\ callbacks' = SubSeq(callbacks, 1, Len(callbacks) - 1)
    /\ UNCHANGED <<last, pc, result, shutdown, initTick, guard, term, restores,
                   resumed, event, cur, handled, queued, rendered, drawn>>
    /\ UNCHANGED sideVars

\* callbacks.into_iter().for_each(|cc| cc(&mut self)), one callback at a time
\* (compositor.rs:307).
RunCallback ==
    /\ pc = "callbacks"
    /\ callbacks # <<>>
    /\ LET cb == Head(callbacks) IN
       /\ layers' = ApplyCallback(cb, layers)
       /\ exit' = (exit \/ cb.kind = "exit")
       /\ executed' = Append(executed, cb)
    /\ callbacks' = Tail(callbacks)
    /\ UNCHANGED <<last, pc, result, shutdown, initTick, guard, term, restores,
                   resumed, event, cur, handled, queued, rendered, drawn>>
    /\ UNCHANGED sideVars

\* if self.exit { break } (compositor.rs:309-311), then Ok(()) leaves the
\* async block.
ExitCheck ==
    /\ pc = "callbacks"
    /\ callbacks = <<>>
    /\ IF exit
       THEN pc' = "drop" /\ result' = "Ok"
       ELSE pc' = "render" /\ UNCHANGED result
    /\ UNCHANGED <<layers, last, exit, shutdown, initTick, guard, term,
                   restores, resumed, event, cur, callbacks, handled, queued,
                   executed, rendered, drawn>>
    /\ UNCHANGED sideVars

\* self.layers.values().flat_map(|l| l.iter()): the components from the
\* lowest layer up, each layer in its order.
RECURSIVE RenderOrder(_, _)
RenderOrder(ls, K) ==
    IF K = {} THEN <<>>
    ELSE LET m == MinKey(K) IN
         [i \in 1..Len(ls[m]) |-> [layer |-> m, id |-> ls[m][i].id]]
            \o RenderOrder(ls, K \ {m})

\* terminal.draw(..).unwrap() (compositor.rs:313-325): the view of every
\* mounted component is called, whatever the set upd of the ids whose
\* should_update (the test of forward_view, lib.rs:245) holds in this pass;
\* when the backend fails (~ok) draw returns an io::Error and the unwrap
\* panics.
Draw(ok, upd) ==
    /\ pc = "render"
    /\ IF ok
       THEN /\ pc' = "await" /\ UNCHANGED result
            /\ rendered' = TRUE
            /\ drawn' = RenderOrder(layers, DOMAIN layers)
            /\ updating' = upd
       ELSE /\ pc' = "drop" /\ result' = "Panic"
            /\ UNCHANGED <<rendered, drawn, updating>>
    /\ UNCHANGED <<layers, last, exit, shutdown, initTick, guard, term,
                   restores, resumed, event, cur, callbacks, handled, queued,
                   executed>>
    /\ UNCHANGED <<timeVars, jobVars, accLog>>

\* The guard's drop, run only when run returns Ok: the mutation that restores
\* the terminal on the success path alone.
DropGuardOnOk ==
    /\ pc = "drop"
    /\ pc' = "done"
    /\ IF guard = "held" /\ result = "Ok"
       THEN /\ restores' = restores + 1
            /\ guard' = "dropped"
            /\ term' = TermOff
       ELSE UNCHANGED <<restores, guard, term>>
    /\ UNCHANGED <<layers, last, result, exit, shutdown, initTick, resumed,
                   event, cur, callbacks, handled, queued, executed, rendered,
                   drawn>>
    /\ UNCHANGED sideVars

\* run is left (drop(guard) at compositor.rs:332, the ? of lines 268 and 330,
\* or unwinding): the guard's drop (compositor.rs:374-384) runs its three
\* commands, ignoring their errors.
DropGuard ==
    /\ pc = "drop"
    /\ pc' = "done"
    /\ IF guard = "held"
       THEN /\ restores' = restores + 1
            /\ guard' = "dropped"
            /\ term' = TermOff
       ELSE UNCHANGED <<restores, guard, term>>
    /\ UNCHANGED <<layers, last, result, exit, shutdown, initTick, resumed,
                   event, cur, callbacks, handled, queued, executed, rendered,
                   drawn>>
    /\ UNCHANGED sideVars

\* What handle_event may leave in the EventAccess that held ev.
Held(ev) == {ev, "None", "User"}

\* What one handle_event call may queue.
Added == {<<>>} \cup { <<cb>> : cb \in CallbackSet }

Next ==
    \/ \E l \in LayerIds, c \in HostComponents : Mount(l, c)
    \/ WithShutdown
    \/ \E rawOk \in BOOLEAN, applied \in 0..3 : GuardNew(rawOk, applied)
    \/ \E ok \in BOOLEAN : TerminalNew(ok)
    \/ \E src \in {"initial", "shutdown", "stream"}, e \in StreamEvents, ok \in BOOLEAN :
          Dequeue(src, e, NoCallback, ok)
    \/ \E held \in Held(event), added \in Added, panics \in BOOLEAN :
          HandleEvent(held, added, 0, panics)
    \/ Deconstruct
    \/ RunCallback
    \/ ExitCheck
    \/ \E ok \in BOOLEAN : Draw(ok, Ids)
    \/ DropGuard

Spec == Init /\ [][Next]_vars

----------------------------------------------------------------------------
\* The run loop with its clock: a second passes while the loop waits or works.
Tock ==
    /\ pc \in {"await", "dispatch", "callbacks", "render"}
    /\ now < MaxTime
    /\ now' = now + 1
    /\ UNCHANGED <<layers, last, pc, result>>
    /\ UNCHANGED loopVars
    /\ UNCHANGED <<timeout, due, ticked>>
    /\ UNCHANGED <<jobVars, updating, accLog>>

\* The components whose should_update holds at a render pass: all of them
\* (the default of the spec), or all but the popup.
UpdateSets == {Ids, Ids \ {"popup"}}

\* What the streams yield in SpecTimer: the user's stream emits no Tick.
TimerSources ==
    { <<"initial", "Tick">>, <<"interval", "Tick">>, <<"stream", "User">> }

NextTimer ==
    \/ \E l \in LayerIds, c \in HostComponents : Mount(l, c)
    \/ \E t \in Timeouts : WithTimeout(t)
    \/ \E rawOk \in BOOLEAN, applied \in 0..3 : GuardNew(rawOk, applied)
    \/ \E ok \in BOOLEAN : TerminalNew(ok)
    \/ \E s \in TimerSources, ok \in BOOLEAN : Dequeue(s[1], s[2], NoCallback, ok)
    \/ \E held \in Held(event) : HandleEvent(held, <<>>, 0, FALSE)
    \/ Deconstruct
    \/ ExitCheck
    \/ \E ok \in BOOLEAN, upd \in UpdateSets : Draw(ok, upd)
    \/ DropGuard
    \/ Tock

SpecTimer == Init /\ [][NextTimer]_vars

----------------------------------------------------------------------------
\* The run loop with its jobs (jobs.rs).

\* The receiver of the job results lives in flux, inside the async block of
\* run: it is dropped, and the channel closed, when the loop is left.
closed == pc \in {"drop", "done"}

\* The future of a spawned job finishes (jobs.rs:60): job.await.into_callback()
\* is None for () and for None, nothing is sent and the task ends; it is
\* Some for a closure, and the task goes on to send it.
JobFinish(yields) ==
    /\ running > 0
    /\ running' = running - 1
    /\ IF yields
       THEN yielded' = yielded + 1 /\ sending' = sending + 1
       ELSE UNCHANGED <<yielded, sending>>
    /\ UNCHANGED <<layers, last, pc, result>>
    /\ UNCHANGED loopVars
    /\ UNCHANGED <<timeVars, chan, served, refused, updating, accLog>>

\* A failed send unwinds the loop: the mutation in which the expect of
\* jobs.rs:64 runs in run's own task.
JobSendInRun ==
    /\ sending > 0
    /\ sending' = sending - 1
    /\ IF closed
       THEN refused' = refused + 1 /\ result' = "Panic" /\ UNCHANGED chan
       ELSE chan < ChannelCap /\ chan' = chan + 1 /\ UNCHANGED <<refused, result>>
    /\ UNCHANGED <<layers, last, pc>>
    /\ UNCHANGED loopVars
    /\ UNCHANGED <<timeVars, running, yielded, served, updating, accLog>>

\* The job's task calls its callback on the compositor itself instead of
\* sending it: the mutation in which a job has the compositor in its hands.
JobSendDirect ==
    /\ sending > 0
    /\ sending' = sending - 1
    /\ IF closed
       THEN refused' = refused + 1 /\ UNCHANGED <<layers, served>>
       ELSE /\ layers' = remove_all(layers, "popup").layers
            /\ served' = served + 1
            /\ UNCHANGED refused
    /\ UNCHANGED <<last, pc, result, chan>>
    /\ UNCHANGED loopVars
    /\ UNCHANGED <<timeVars, running, yielded, updating, accLog>>

\* The send gives up when the channel is full: the mutation of send(..).await
\* into try_send(..).ok().
JobTrySend ==
    /\ sending > 0
    /\ sending' = sending - 1
    /\ IF closed
       THEN refused' = refused + 1 /\ UNCHANGED chan
       ELSE chan' = (IF chan < ChannelCap THEN chan + 1 ELSE chan) /\ UNCHANGED refused
    /\ UNCHANGED <<layers, last, pc, result>>
    /\ UNCHANGED loopVars
    /\ UNCHANGED <<timeVars, running, yielded, served, updating, accLog>>

\* sender.send(Resume::JobCallback(callback)).await.expect("jobs closed")
\* (jobs.rs:61-64): the send completes when the channel has room, and waits
\* while it is full; on a closed channel it fails and the expect panics in
\* the job's task, which tokio::spawn contains.
JobSend ==
    /\ sending > 0
    /\ sending' = sending - 1
    /\ IF closed
       THEN refused' = refused + 1 /\ UNCHANGED chan
       ELSE chan < ChannelCap /\ chan' = chan + 1 /\ UNCHANGED refused
    /\ UNCHANGED <<layers, last, pc, result>>
    /\ UNCHANGED loopVars
    /\ UNCHANGED <<timeVars, running, yielded, served, updating, accLog>>

\* What the streams yield in SpecJobs.
JobSources ==
    { <<"initial", "Tick">>, <<"stream", "User">>, <<"job", "None">> }

NextJobs ==
    \/ Mount(POPUP, [id |-> "popup", ty |-> "Popup", inst |-> 1])
    \/ Mount(FOREGROUND, [id |-> "main", ty |-> "MainScreen", inst |-> 1])
    \/ \E ok \in BOOLEAN : GuardNew(ok, 3)
    \/ \E ok \in BOOLEAN : TerminalNew(ok)
    \/ \E s \in JobSources, cb \in JobCallbacks, ok \in BOOLEAN :
          Dequeue(s[1], s[2], cb, ok)
    \/ \E held \in {event, "None"}, spawned \in 0..1 :
          HandleEvent(held, <<>>, spawned, FALSE)
    \/ Deconstruct
    \/ ExitCheck
    \/ \E ok \in BOOLEAN : Draw(ok, Ids)
    \/ DropGuard
    \/ \E yields \in BOOLEAN : JobFinish(yields)
    \/ JobSend

SpecJobs == Init /\ [][NextJobs]_vars

----------------------------------------------------------------------------
\* An EventAccess under the calls of a handler (lib.rs:164-201). Each
\* operation gives the event the access holds afterwards and what it returns.

\* The access keeps its event and hands out a copy: the mutation of consume
\* that forgets the replace.
consume_keep(ev) == [event |-> ev, ret |-> ev]

peek(ev) == [event |-> ev, ret |-> ev]
consume(ev) == [event |-> "None", ret |-> ev]
replace(ev, e) == [event |-> e, ret |-> ev]
cloned(ev) == [event |-> ev, ret |-> ev]

\* EventAccess { event } (compositor.rs:287), around any event.
NewAccess(e) ==
    /\ pc = "build"
    /\ pc' = "access"
    /\ event' = e
    /\ accLog' = <<>>
    /\ UNCHANGED <<layers, last, result, exit, shutdown, initTick, guard, term,
                   restores, resumed, cur, callbacks, handled, queued, executed,
                   rendered, drawn>>
    /\ UNCHANGED <<timeVars, jobVars, updating>>

\* One call on the access: r is what the operation gives; the log keeps the
\* call, what it returned and is_consumed() after it.
Call(op, arg, r) ==
    /\ pc = "access"
    /\ Len(accLog) < MaxCalls
    /\ event' = r.event
    /\ accLog' = Append(accLog, [op |-> op, arg |-> arg, ret |-> r.ret,
                                 consumed |-> is_consumed(r.event)])
    /\ UNCHANGED <<layers, last, pc, result, exit, shutdown, initTick, guard,
                   term, restores, resumed, cur, callbacks, handled, queued,
                   executed, rendered, drawn>>
    /\ UNCHANGED <<timeVars, jobVars, updating>>

Peek == Call("peek", "None", peek(event))
Consume == Call("consume", "None", consume(event))
Replace(e) == Call("replace", e, replace(event, e))
Cloned == Call("cloned", "None", cloned(event))

NextAccess ==
    \/ \E e \in Events : NewAccess(e)
    \/ Peek
    \/ Consume
    \/ \E e \in Events : Replace(e)
    \/ Cloned

SpecAccess == Init /\ [][NextAccess]_vars

----------------------------------------------------------------------------
\* Properties of the registry operations, under SpecRegistry.

\* The layer layer_id of ls, empty when the map has no such key.
LayerOf(ls, layer_id) == IF layer_id \in DOMAIN ls THEN ls[layer_id] ELSE <<>>

\* The ids of v are pairwise different.
UniqueIds(v) == \A i, j \in 1..Len(v) : v[i].id = v[j].id => i = j

\* Every layer but layer_id is the same in ls and ls2.
OtherLayersSame(ls, ls2, layer_id) ==
    \A k \in LayerIds \ {layer_id} : LayerOf(ls, k) = LayerOf(ls2, k)

\* The components of v other than the one with id `id` are those of w, in
\* the same relative order.
OthersKeepOrder(v, w, id) ==
    /\ { v[i] : i \in { n \in 1..Len(v) : v[n].id # id } }
         = { w[i] : i \in { n \in 1..Len(w) : w[n].id # id } }
    /\ \A i, j \in 1..Len(v) :
          (i < j /\ v[i].id # id /\ v[j].id # id) =>
             \E a, b \in 1..Len(w) : a < b /\ w[a] = v[i] /\ w[b] = v[j]

\* C1: after any sequence of insert_at, replace_at, remove_at, remove_all and
\* take_at calls, every layer holds at most one component with any given id.
C1_UniqueIdPerLayer == \A l \in DOMAIN layers : UniqueIds(layers[l])

\* C1's case: a layer of three components on which a same-id insert_at was
\* just refused.
C1_Witness ==
    /\ last.op = "insert_at" /\ last.ret = "Err"
    /\ \E l \in DOMAIN layers : Len(layers[l]) = 3

\* C4 as claimed: a take_at whose requested type differs from the type of the
\* component mounted under the id returns None and leaves the registry as it
\* was, the component at its position included.
C4_TakeMismatchKeepsRegistry ==
    [][ \A l \in LayerIds, id \in Ids, C \in Types :
          ( /\ CallTakeAt(l, id, C)
            /\ Mounted(layers, l, id)
            /\ layers[l][position(layers[l], id)].ty # C )
          => (last'.ret = "None" /\ layers' = layers) ]_vars

\* C5: insert_at on a layer that already mounts the id returns the component
\* and leaves the registry as it was; otherwise it returns Ok and the
\* component is the last of its layer, the rest of the registry unchanged.
C5_InsertAt ==
    [][ \A l \in LayerIds, c \in Catalogue :
          CallInsertAt(l, c) =>
             IF Mounted(layers, l, c.id)
             THEN last'.ret = "Err" /\ last'.out = c /\ layers' = layers
             ELSE /\ last'.ret = "Ok"
                  /\ l \in DOMAIN layers'
                  /\ layers'[l] = Append(LayerOf(layers, l), c)
                  /\ OtherLayersSame(layers, layers', l) ]_vars

\* C5's case: an insert_at was refused and handed back an instance other than
\* the one mounted under its id.
C5_Witness ==
    /\ last.op = "insert_at" /\ last.ret = "Err"
    /\ \E l \in DOMAIN layers : \E i \in 1..Len(layers[l]) :
          layers[l][i].id = last.out.id /\ layers[l][i] # last.out

\* C6: after replace_at(layer, c) the layer holds exactly one component with
\* c's id, it is c, it is the last of the layer, the other components of the
\* layer keep their relative order and the other layers are unchanged.
C6_ReplaceAt ==
    [][ \A l \in LayerIds, c \in Catalogue :
          CallReplaceAt(l, c) =>
             /\ l \in DOMAIN layers'
             /\ Cardinality({ i \in 1..Len(layers'[l]) : layers'[l][i].id = c.id }) = 1
             /\ layers'[l][Len(layers'[l])] = c
             /\ OthersKeepOrder(LayerOf(layers, l), layers'[l], c.id)
             /\ OthersKeepOrder(layers'[l], LayerOf(layers, l), c.id)
             /\ OtherLayersSame(layers, layers', l) ]_vars

\* C6's case: a replace_at evicted a mounted instance from a layer of three,
\* where it was not the last, and the other instance is now mounted.
C6_Witness ==
    /\ last.op = "replace_at" /\ last.hit
    /\ \E l \in DOMAIN layers :
          /\ Len(layers[l]) = 3
          /\ layers[l][3].id = "popup" /\ layers[l][3].inst = 2

\* C7 as claimed: remove_at, on any layer and id, does not fail, removes the
\* component when it is mounted and returns true exactly then; otherwise it
\* returns false and leaves the registry unchanged.
C7_RemoveAt ==
    [][ \A l \in LayerIds, id \in Ids :
          CallRemoveAt(l, id) =>
             /\ last'.ret \in {"true", "false"}
             /\ last'.ret = "true" <=> Mounted(layers, l, id)
             /\ ~Mounted(layers', l, id)
             /\ ~Mounted(layers, l, id) => layers' = layers ]_vars

----------------------------------------------------------------------------
\* Properties of the run loop, under Spec.

\* The mounted slots of ls, and the place of a slot in the order "layers from
\* the highest id to the lowest, each layer in insertion order".
Slots(ls) == UNION { { <<l, i>> : i \in 1..Len(ls[l]) } : l \in DOMAIN ls }
Rank(ls, slot) ==
    Cardinality({ t \in Slots(ls) :
                    t[1] > slot[1] \/ (t[1] = slot[1] /\ t[2] <= slot[2]) })

\* No handle_event of the current cycle returned with the event consumed.
NoneConsumed == \A i \in 1..Len(handled) : ~handled[i].consumed

\* C2: within one dispatch cycle, after a handle_event returns with the
\* EventAccess consumed no other component's handle_event is invoked: only
\* the last call of a cycle can have returned with the event consumed.
C2_ConsumeStopsDispatch ==
    \A i \in 1..Len(handled) : handled[i].consumed => i = Len(handled)

\* C2's case: the popup, above a mounted foreground component, consumed the
\* event and the cycle is over.
C2_Witness ==
    /\ pc = "callbacks" /\ executed = <<>>
    /\ Len(handled) = 1 /\ handled[1].consumed /\ handled[1].layer = POPUP
    /\ Len(LayerOf(layers, FOREGROUND)) > 0

\* C3: for an event that no component consumes, handle_event is invoked
\* exactly once on every mounted component, the layers from the highest id
\* to the lowest and each layer in insertion order: during the cycle the
\* k-th call is on the k-th slot of that order, and when the loops are left
\* with the event unconsumed every slot has had its call.
C3_DispatchOrder ==
    pc = "dispatch" =>
       /\ \A k \in 1..Len(handled) :
             \E slot \in Slots(layers) :
                /\ Rank(layers, slot) = k
                /\ handled[k].layer = slot[1]
                /\ handled[k].id = layers[slot[1]][slot[2]].id
       /\ (cur = <<>> /\ NoneConsumed) => Len(handled) = Cardinality(Slots(layers))

\* C3's case: an unconsumed event has gone through a popup layer and two
\* foreground siblings.
C3_Witness ==
    /\ pc = "dispatch" /\ cur = <<>> /\ NoneConsumed
    /\ Len(handled) = 3
    /\ handled[1].layer = POPUP /\ handled[2].layer = FOREGROUND
    /\ handled[3].layer = FOREGROUND

\* C8 as claimed: from the moment Event::Exit is dequeued, no component's
\* handle_event is invoked and no render pass is performed.
C8_ExitEndsLoop ==
    resumed.ev = "Exit" => (handled = <<>> /\ pc # "render" /\ ~rendered)

\* C9: when the guard was acquired its restore sequence runs exactly once on
\* every way run ends (exit requested, an I/O error, a panic out of dispatch
\* or render), and nothing is dispatched or rendered after it.
C9_GuardRestoredOnce ==
    /\ guard = "none" => restores = 0
    /\ guard = "held" => (restores = 0 /\ pc # "done")
    /\ guard = "dropped" => (restores = 1 /\ pc = "done")

\* C9's case: a panic unwound out of run and the terminal was restored.
C9_Witness == pc = "done" /\ result = "Panic" /\ restores = 1 /\ term = TermOff

C11_CallbackAfterDraw == (executed # <<>>) => rendered

----------------------------------------------------------------------------
\* Properties of the ticks, under SpecTimer (no user stream emits Tick).

\* C12 as claimed: with the tick interval set to zero, no Event::Tick is ever
\* dispatched to a component unless a user-supplied stream emitted it.
C12_NoTickWhenZero ==
    (timeout = 0 /\ resumed.ev = "Tick" /\ resumed.src # "stream")
       => handled = <<>>

\* C12, amended: with the tick interval set to zero run has no interval and
\* no periodic Tick is ever dequeued; the only Tick that does not come from a
\* user-supplied stream is the one initial Tick run emits at its start, and
\* it is dequeued at most once.
C12_OnlyInitialTickWhenZero ==
    timeout = 0 =>
       /\ resumed.src # "interval"
       /\ (resumed.ev = "Tick" /\ resumed.src # "stream") => resumed.src = "initial"
       /\ Len(ticked) <= 1
       /\ (pc \in {"await", "dispatch", "callbacks", "render"} /\ ~initTick)
             => Len(ticked) = 1

\* C12's case: the interval is zero, the initial Tick is long gone, more
\* than a default period has passed, and the iteration at hand dispatched a
\* user event to a mounted component.
C12_Witness ==
    /\ timeout = 0 /\ ~initTick /\ now > DefaultTimeout
    /\ resumed = [src |-> "stream", ev |-> "User"]
    /\ handled # <<>> /\ rendered

\* C13 as claimed: with a non-zero interval T and no user stream emitting
\* Tick, any two consecutive Ticks the loop processes are at least T apart.
C13_TickSeparation ==
    (ticking(timeout) /\ Len(ticked) = 2) => ticked[2] - ticked[1] >= timeout

----------------------------------------------------------------------------
\* Properties of the jobs, under SpecJobs.

\* C15: each job causes at most one callback application and no callback a
\* job yields is lost or duplicated, more than ChannelCap results pending at
\* once included: while the loop runs every callback yielded so far is
\* waiting in its send, is in the channel, or has been called by the loop,
\* once; the loop calls them one at a time, each in an iteration of its own
\* that the channel started; a waiting send can complete as soon as the
\* channel has room and a callback in the channel can be dequeued whenever
\* the loop awaits; and a job that yields nothing changes nothing but the
\* count of running jobs: no callback application, no loop iteration.
C15_JobCallbackOnce ==
    /\ [](yielded = sending + chan + served + refused)
    /\ [](chan <= ChannelCap /\ (~closed => refused = 0))
    /\ []((sending > 0 /\ chan < ChannelCap) => ENABLED JobSend)
    /\ []((chan > 0 /\ pc = "await") =>
             ENABLED (\E cb \in JobCallbacks : Dequeue("job", "None", cb, TRUE)))
    /\ [][ served' # served =>
             /\ served' = served + 1 /\ chan' = chan - 1
             /\ pc = "await" /\ resumed'.src = "job" ]_vars
    /\ [][ (running' < running /\ yielded' = yielded) =>
             /\ UNCHANGED <<layers, last, pc, result, sending, chan, served, refused>>
             /\ UNCHANGED loopVars ]_vars

\* C15's case: the loop has called a job's callback and rendered, while the
\* channel is full and one more finished job waits in its send.
C15_Witness ==
    /\ chan = ChannelCap /\ sending > 0 /\ served > 0
    /\ resumed.src = "job" /\ rendered

\* C14 as claimed: when a job result is dequeued the loop first runs the
\* dispatch cycle and only then calls the delivered callback, where it calls
\* the callbacks queued during dispatch: after the dispatch loops are left
\* and before the render pass.
C14_JobCallbackAfterDispatch ==
    [][ served' # served => pc = "callbacks" ]_vars

\* C16: once the loop has ended, a job that is still running or whose result
\* is ready changes nothing for run: its callback is never called, the
\* registry, the exit flag and the outcome of run stay as they are, and
\* run's return (the drop of the guard) is not held up.
C16_PendingJobMoot ==
    /\ [][ closed => /\ served' = served /\ chan' = chan
                     /\ layers' = layers /\ exit' = exit
                     /\ result' = result ]_vars
    /\ [](pc = "drop" => ENABLED DropGuard)
    /\ [](pc = "done" => result # "none")

\* C16's case: run has returned Ok after an exit while a callback was left in
\* the channel, a job finished later and found the channel closed, and one
\* more job is still running.
C16_Witness ==
    /\ pc = "done" /\ result = "Ok" /\ exit
    /\ chan > 0 /\ refused > 0 /\ running > 0

\* C20 as claimed: once exit() has been called during run, by a callback
\* queued during dispatch or by one a job delivered, no handle_event and no
\* view is invoked any more, and run returns Ok.
C20_ExitStopsEverything ==
    /\ [][ exit => (handled' = handled /\ rendered' = rendered /\ drawn' = drawn) ]_vars
    /\ []((exit /\ pc = "done") => result = "Ok")

----------------------------------------------------------------------------
\* Properties of the render pass.

\* C17 as claimed: a render pass draws the mounted components from the lowest
\* LayerId to the highest, each layer in insertion order, and draws exactly
\* those whose should_update returns true.
C17_RenderFiltered ==
    rendered =>
       drawn = SelectSeq(RenderOrder(layers, DOMAIN layers),
                         LAMBDA d : d.id \in updating)

\* C18 as claimed: when the backend fails while drawing, run ends with that
\* failure as an I/O error value, not with a panic.
C18_DrawErrorReturned ==
    [][ (pc = "render" /\ pc' = "drop") => result' = "Err" ]_vars

----------------------------------------------------------------------------
\* Properties of the EventAccess, under SpecAccess.

\* The call at k of the log put an event other than None into the access.
Refills(k) == accLog[k].op = "replace" /\ accLog[k].arg # "None"

\* C19 as claimed: once consume() has been called, is_consumed() is true
\* after every later peek, consume, replace and cloned call.
C19_ConsumeOneWay ==
    \A i \in 1..Len(accLog) : \A j \in i..Len(accLog) :
       accLog[i].op = "consume" => accLog[j].consumed

\* C19, amended: is_consumed() tells whether the access holds Event::None.
\* After consume() it is true and stays true under peek, consume, cloned and
\* replace(Event::None); a replace with any other event makes it false
\* again; peek and cloned never change it; consume and replace return the
\* event that was held.
C19_ConsumedUntilRefilled ==
    /\ \A i \in 1..Len(accLog) : \A j \in i..Len(accLog) :
          (accLog[i].op = "consume" /\ \A k \in (i + 1)..j : ~Refills(k))
             => accLog[j].consumed
    /\ \A j \in 1..Len(accLog) :
          /\ Refills(j) => ~accLog[j].consumed
          /\ (j > 1 /\ accLog[j].op \in {"peek", "cloned"})
                => accLog[j].consumed = accLog[j - 1].consumed
          /\ (j > 1 /\ accLog[j - 1].consumed) => accLog[j].ret = "None"
    /\ accLog # <<>> => accLog[Len(accLog)].consumed = is_consumed(event)

\* C19's case: consume(), then replace(Event::None), then cloned(): still
\* consumed.
C19_Witness ==
    /\ Len(accLog) >= 3
    /\ accLog[1].op = "consume" /\ accLog[1].ret # "None"
    /\ accLog[2].op = "replace" /\ accLog[2].arg = "None"
    /\ accLog[3].op = "cloned" /\ accLog[3].consumed

\* C21: jobs run beside the loop, yet only the loop touches the registry and
\* the exit flag. A step of a job (its future finishing, its send) leaves
\* the compositor and the loop's iteration as they are; the callback a job
\* delivered is called only in the step that leaves the loop's suspension
\* point, flux.next().await, never while the loop dispatches, applies its
\* callback batch or renders, whenever the job finished or sent.
C21_OnlyLoopAppliesJobCallbacks ==
    /\ [][ (running' < running \/ sending' # sending) =>
             /\ UNCHANGED <<layers, last, pc, result, served>>
             /\ UNCHANGED loopVars ]_vars
    /\ [][ served' # served =>
             (pc = "await" /\ pc' \in {"dispatch", "drop"} /\ handled' = <<>>) ]_vars
    /\ [][ (pc \in {"dispatch", "callbacks", "render"}) =>
             (served' = served /\ chan <= chan') ]_vars

\* C21's case: the loop is in the dispatch cycle of an iteration a job result
\* started, a handler has run, and meanwhile another job has finished and
\* put its callback into the channel while a third waits in its send.
C21_Witness ==
    /\ pc = "dispatch" /\ handled # <<>>
    /\ resumed.src = "job" /\ served > 0
    /\ chan > 0 /\ sending > 0 /\ running > 0

----------------------------------------------------------------------------
\* The acquisition of the terminal session, under Spec.

\* C22 as claimed: when acquiring the terminal session fails, run returns the
\* I/O error with nothing dispatched or rendered and with the steps already
\* applied reversed: raw mode, the alternate screen and the mouse capture
\* are off again.
C22_PartialAcquireReversed ==
    (pc = "done" /\ result = "Err" /\ guard = "none") =>
       (term = TermOff /\ handled = <<>> /\ ~rendered)

----------------------------------------------------------------------------
\* The sibling order, under SpecRegistry.

\* C23 as claimed: removing or taking the component with some id, with
\* remove_at, remove_all or take_at, successfully or not, leaves the other
\* components of every layer mounted and in the relative order they had, so
\* that the order within a layer stays the mount order.
C23_SiblingOrderKept ==
    [][ \A id \in Ids :
          ( \/ CallRemoveAll(id)
            \/ \E l \in LayerIds : CallRemoveAt(l, id)
            \/ \E l \in LayerIds, C \in Types : CallTakeAt(l, id, C) )
          => \A k \in LayerIds :
                OthersKeepOrder(LayerOf(layers, k), LayerOf(layers', k), id) ]_vars

----------------------------------------------------------------------------
\* The event a handler is entered with, under SpecJobs (no stream emits
\* Event::None).

\* C24 as claimed: the loop never enters a handle_event with an EventAccess
\* that is already consumed, and the iteration a job result starts invokes
\* no handle_event at all.
C24_NoHandlerOnConsumed ==
    /\ (pc = "dispatch" /\ cur # <<>>) => ~is_consumed(event)
    /\ resumed.src = "job" => handled = <<>>

====
